---- MODULE Spec2Model ----
(***************************************************************************)
(* A model of review_parser.py: the extraction of the query list from a    *)
(* workbook (parse_queries_from_xlsx_file) and the run of main(): setup,   *)
(* the report block, the per-query cycle with its result cache, and the    *)
(* exits of the process.                                                   *)
(*                                                                         *)
(* Displayed page texts are sequences of one-character strings, so that    *)
(* str.replace and str.split are computed.  Cell values are tagged with    *)
(* their Python type (openpyxl yields str, int, bool, None for a cell),    *)
(* so that truthiness, ==/hash equality of dictionary keys and str() are   *)
(* computed as Python computes them.                                       *)
(***************************************************************************)
EXTENDS Integers, Sequences, FiniteSets, TLC

(***************************************************************************)
(* Program constants and bounds of the model.                              *)
(***************************************************************************)
MAX_QUERIES == 100

\* rows of the one sheet of a short workbook of the run (Spec)
MaxRunRows == 3
\* rows of a workbook of the extractor's specification (SpecParse)
MaxRows == 3
\* sheets of a workbook of SpecParse
MaxSheets == 2
\* rows past MAX_QUERIES of a long single-sheet workbook
MaxOver == 2
\* characters of a displayed text given to the Result Extractor alone
MaxText == 3

(***************************************************************************)
(* Python values of a cell.                                                *)
(***************************************************************************)
PyStr(s) == [type |-> "str", s |-> s, n |-> 0]
PyInt(n) == [type |-> "int", s |-> "", n |-> n]
PyBool(b) == [type |-> "bool", s |-> "", n |-> IF b THEN 1 ELSE 0]
PyNone == [type |-> "NoneType", s |-> "", n |-> 0]

\* bool(v): the truth value `row[0].value` is tested for
Truthy(v) ==
    CASE v.type = "str" -> v.s # ""
      [] v.type \in {"int", "bool"} -> v.n # 0
      [] OTHER -> FALSE

\* a == b (with equal hashes): the equality of the keys of a dict, and of
\* `queries[0] == 'Agent Name'`.  True == 1, and '1' # 1.
PyEq(a, b) ==
    IF a.type = "str" /\ b.type = "str" THEN a.s = b.s
    ELSE IF a.type \in {"int", "bool"} /\ b.type \in {"int", "bool"} THEN a.n = b.n
    ELSE a.type = "NoneType" /\ b.type = "NoneType"

IntStr(n) ==
    CASE n = 0 -> "0" [] n = 1 -> "1" [] n = 2 -> "2" [] n = 3 -> "3"
      [] n = 4 -> "4" [] n = 5 -> "5" [] n = 6 -> "6" [] n = 7 -> "7"
      [] n = 8 -> "8" [] n = 9 -> "9"

\* str(v): the text csv writes for a value, and the text send_keys types
Str(v) ==
    CASE v.type = "str" -> v.s
      [] v.type = "int" -> IntStr(v.n)
      [] v.type = "bool" -> (IF v.n = 1 THEN "True" ELSE "False")
      [] OTHER -> ""

\* a cell that holds something: neither no value nor the empty string
NonEmpty(v) == v.type # "NoneType" /\ ~(v.type = "str" /\ v.s = "")

(***************************************************************************)
(* Workbooks: a sequence of sheets, a sheet a sequence of rows, a row a    *)
(* sequence of cells, a cell [value |-> v].                                *)
(***************************************************************************)
Cell(v) == [value |-> v]
\* `row[0] is None`: iter_rows yields cell objects, so no workbook holds it
NoCell == [value |-> PyNone, missing |-> TRUE]

RECURSIVE SeqsUpTo(_, _)
SeqsUpTo(S, n) ==
    IF n = 0 THEN {<<>>}
    ELSE LET shorter == SeqsUpTo(S, n - 1)
         IN  shorter \cup {Append(s, x) : s \in {t \in shorter : Len(t) = n - 1}, x \in S}

Repeat(x, n) == [j \in 1..n |-> x]

RECURSIVE FlatRows(_)
FlatRows(wb) == IF wb = <<>> THEN <<>> ELSE Head(wb) \o FlatRows(Tail(wb))

\* the first-column values of the extractor's workbooks
ParseValues ==
    {PyNone, PyStr(""), PyStr("Agent Name"), PyStr("Acme Corp"), PyInt(0), PyInt(1)}

\* the first-column values of the run's workbooks
RunValues ==
    {PyStr("Agent Name"), PyStr("1"), PyInt(1), PyBool(TRUE)}

ParseRowSet ==
    {<<>>} \cup {<<Cell(v)>> : v \in ParseValues}
           \cup {<<Cell(v), Cell(PyStr("Acme Corp"))>> : v \in {PyNone, PyStr("Agent Name")}}

\* the places where a sequence of n rows is cut into at most MaxSheets sheets
Cuts(n) ==
    {c \in SeqsUpTo(0..n, MaxSheets - 1) : \A j \in 1..(Len(c) - 1) : c[j] <= c[j + 1]}

\* the rows cut into Len(cuts) + 1 sheets, some of them perhaps empty
SplitAt(rows, cuts) ==
    [j \in 1..(Len(cuts) + 1) |->
        SubSeq(rows, (IF j = 1 THEN 0 ELSE cuts[j - 1]) + 1,
                     IF j = Len(cuts) + 1 THEN Len(rows) ELSE cuts[j])]

\* wb is a workbook of at most MaxRows rows in at most MaxSheets sheets
IsParseWorkbook(wb) ==
    \E rows \in SeqsUpTo(ParseRowSet, MaxRows) :
        \E cuts \in Cuts(Len(rows)) : wb = SplitAt(rows, cuts)

RunWorkbooks ==
    {<<sheet>> : sheet \in SeqsUpTo({<<Cell(v)>> : v \in RunValues}, MaxRunRows)}

\* one sheet of more rows than MAX_QUERIES keeps, with or without the header
LongWorkbooks ==
    {<<head \o Repeat(<<Cell(PyStr("Acme Corp"))>>, MAX_QUERIES - 1 + k)>> :
        head \in {<<>>, <<<<Cell(PyStr("Agent Name"))>>>>, <<<<Cell(PyInt(1))>>>>},
        k \in 0..MaxOver}

\* one sheet: the header, a value, an empty text, the value again, another
ExampleWorkbook ==
    <<<<<<Cell(PyStr("Agent Name"))>>, <<Cell(PyStr("Acme Corp"))>>, <<Cell(PyStr(""))>>,
        <<Cell(PyStr("Acme Corp"))>>, <<Cell(PyStr("Beta LLC"))>>>>>>

(***************************************************************************)
(* parse_queries_from_xlsx_file, lines 64-77.                              *)
(***************************************************************************)
\* line 73: the first cell in the row is not empty
RowAccepted(row) == Len(row) > 0 /\ row[1] # NoCell /\ Truthy(row[1].value)

\* lines 72-74: the values of the accepted rows of a sheet, top to bottom
SheetValues(sheet) ==
    LET accepted == SelectSeq(sheet, RowAccepted)
    IN  [j \in 1..Len(accepted) |-> accepted[j][1].value]

RECURSIVE CollectValues(_)
CollectValues(wb) ==
    IF wb = <<>> THEN <<>> ELSE SheetValues(Head(wb)) \o CollectValues(Tail(wb))

\* every header label is dropped, wherever it is
RemoveEveryHeader(qs) == SelectSeq(qs, LAMBDA v : ~PyEq(v, PyStr("Agent Name")))

\* queries.remove('Agent Name'): the first header label anywhere is dropped
RemoveHeaderAnywhere(qs) ==
    IF \E j \in 1..Len(qs) : PyEq(qs[j], PyStr("Agent Name"))
    THEN LET h == CHOOSE j \in 1..Len(qs) :
                     /\ PyEq(qs[j], PyStr("Agent Name"))
                     /\ \A g \in 1..(j - 1) : ~PyEq(qs[g], PyStr("Agent Name"))
         IN  SubSeq(qs, 1, h - 1) \o SubSeq(qs, h + 1, Len(qs))
    ELSE qs

\* lines 75-76: remove header, if present
RemoveHeader(qs) ==
    IF qs # <<>> /\ PyEq(qs[1], PyStr("Agent Name")) THEN Tail(qs) ELSE qs

parse_queries_from_xlsx_file(wb) == RemoveHeader(CollectValues(wb))

\* line 135: queries[:MAX_QUERIES]
Truncate(qs) == IF Len(qs) <= MAX_QUERIES THEN qs ELSE SubSeq(qs, 1, MAX_QUERIES)

(***************************************************************************)
(* Page texts and the Result Extractor, lines 88-95.                       *)
(***************************************************************************)
RECURSIVE Replace(_, _, _)
Replace(text, old, new) ==
    IF text = <<>> THEN <<>>
    ELSE <<IF Head(text) = old THEN new ELSE Head(text)>> \o Replace(Tail(text), old, new)

\* text.split(' ')[0]: the characters before the first space
RECURSIVE SplitFirst(_)
SplitFirst(text) ==
    IF text = <<>> \/ Head(text) = " " THEN <<>>
    ELSE <<Head(text)>> \o SplitFirst(Tail(text))

\* line 90
parse_star_score(text) == Replace(text, ",", ".")
\* line 95
parse_number_of_reviews(text) == SplitFirst(text)

\* characters of a displayed text: a digit, a comma, a space, a tab, a letter
TextChars == {"1", ",", " ", "\t", "r"}
\* any text of at most MaxText characters, and the text "1,234 reviews"
AnyReviewTexts ==
    SeqsUpTo(TextChars, MaxText)
      \cup {<<"1", ",", "2", "3", "4", " ", "r", "e", "v", "i", "e", "w", "s">>}

\* texts the rating element and the review-count element display
StarTexts == {<<"4", ",", "5">>}
ReviewTexts == {<<"1", ",", "2", " ", "r">>}
\* what driver.current_url returns after a submit
Urls == {"https://g/search"}

\* the browser calls of search_query_on_google and of line 103, in order
SubmitCalls == <<"find_element", "clear", "send_keys", "submit", "current_url">>

\* lines 81-85, 103: the calls cs with the short sleep of line 84, which is
\* taken once send_keys has returned and before submit is called
StepsOf(cs) ==
    IF Len(cs) >= 4
    THEN SubSeq(cs, 1, 3) \o <<"typing_delay">> \o SubSeq(cs, 4, Len(cs))
    ELSE cs

(***************************************************************************)
(* dict: insertion-ordered entries, keys compared with ==.                 *)
(***************************************************************************)
\* line 151: query in seen_search_results
DictHas(d, k) == \E j \in 1..Len(d) : PyEq(d[j].key, k)
\* line 152: seen_search_results[query]
DictGet(d, k) == d[CHOOSE j \in 1..Len(d) : PyEq(d[j].key, k)].value
\* line 158: seen_search_results[query] = search_results
DictSet(d, k, v) ==
    IF DictHas(d, k)
    THEN [j \in 1..Len(d) |-> IF PyEq(d[j].key, k) THEN [key |-> d[j].key, value |-> v] ELSE d[j]]
    ELSE Append(d, [key |-> k, value |-> v])

\* a search_results dict with one more key
With(sr, field, v) == [f \in DOMAIN sr \cup {field} |-> IF f = field THEN v ELSE sr[f]]
Has(sr, field) == field \in DOMAIN sr

\* lines 145-146, 159: DictWriter.writerow: the four fields in order, a
\* missing key written as the empty text, the query as str(query)
Row(sr) ==
    [query |-> Str(sr.query),
     star_score |-> IF Has(sr, "star_score") THEN sr.star_score ELSE <<>>,
     reviews_count |-> IF Has(sr, "reviews_count") THEN sr.reviews_count ELSE <<>>,
     url |-> IF Has(sr, "url") THEN sr.url ELSE ""]

(***************************************************************************)
(* The state of a run of main().                                           *)
(***************************************************************************)
VARIABLES
    input_is_file,        \* os.path.isfile(options.input_file)
    workbook,             \* the workbook at the input path
    pc,                   \* where main() is
    logger,               \* "none" | "created"
    driver,               \* "none" | "running"
    queries,              \* main's queries
    i,                    \* the loop's position in queries, from 1
    query,                \* the loop variable
    cached,               \* whether line 151 found the query in the cache
    search_results,       \* the dict of the query in hand
    seen_search_results,  \* the result cache
    calls,                \* browser calls made for the query in hand
    steps,                \* browser calls and sleeps since the last row was written
    delays,               \* sleeps of line 155 taken in the run
    el_text,              \* el.text: the text last read for the query in hand
    raised,               \* the call that raised for the query in hand, or "none"
    attempts,             \* queries passed to parse_search_results, in order
    extracted,            \* queries the Result Extractor was invoked for
    outfile,              \* the report: [state, header, rows, opens]
    last_log,             \* the level of the last log event, "none" before any
    fatal,                \* the failure that aborts the run, "none" if none
    fatal_logged,         \* whether the aborting failure was logged
    exit_code             \* -1 while the process runs, then its exit status

vars == <<input_is_file, workbook, pc, logger, driver, queries, i, query, cached,
          search_results, seen_search_results, calls, steps, delays, el_text, raised,
          attempts, extracted, outfile, last_log, fatal, fatal_logged, exit_code>>

env == <<input_is_file, workbook>>
loopvars == <<queries, i, query, cached, search_results, seen_search_results,
              calls, steps, delays, el_text, raised, attempts, extracted>>

NoReport == [state |-> "unopened", header |-> FALSE, rows |-> <<>>, opens |-> 0]

InitRest ==
    /\ logger = "none"
    /\ driver = "none"
    /\ queries = <<>>
    /\ i = 1
    /\ query = PyNone
    /\ cached = FALSE
    /\ search_results = <<>>
    /\ seen_search_results = <<>>
    /\ calls = <<>>
    /\ steps = <<>>
    /\ delays = 0
    /\ el_text = <<>>
    /\ raised = "none"
    /\ attempts = <<>>
    /\ extracted = <<>>
    /\ outfile = NoReport
    /\ last_log = "none"
    /\ fatal = "none"
    /\ fatal_logged = FALSE
    /\ exit_code = -1

Init ==
    /\ \/ input_is_file = TRUE /\ workbook \in RunWorkbooks \cup LongWorkbooks
       \/ input_is_file = FALSE /\ workbook = <<>>
    /\ pc = "check_input"
    /\ InitRest

(***************************************************************************)
(* Setup, lines 128-140.                                                   *)
(***************************************************************************)
\* an exception no handler catches: the interpreter prints the traceback
\* and exits with status 1
Uncaught(kind) ==
    /\ fatal' = kind
    /\ exit_code' = 1
    /\ pc' = "exited"

\* lines 128-129
CheckInput ==
    /\ pc = "check_input"
    /\ IF input_is_file
       THEN pc' = "create_logger" /\ UNCHANGED <<fatal, exit_code>>
       ELSE Uncaught("missing_input")
    /\ UNCHANGED <<env, logger, driver, loopvars, outfile, last_log, fatal_logged>>

\* line 131; the log file may be impossible to open
CreateLogger ==
    /\ pc = "create_logger"
    /\ \/ logger' = "created" /\ pc' = "create_webdriver" /\ UNCHANGED <<fatal, exit_code>>
       \/ Uncaught("logger") /\ UNCHANGED logger
    /\ UNCHANGED <<env, driver, loopvars, outfile, last_log, fatal_logged>>

\* line 133
CreateWebdriver ==
    /\ pc = "create_webdriver"
    /\ \/ driver' = "running" /\ pc' = "parse_queries" /\ UNCHANGED fatal
       \/ fatal' = "webdriver" /\ pc' = "setup_except" /\ UNCHANGED driver
    /\ UNCHANGED <<env, logger, loopvars, outfile, last_log, fatal_logged, exit_code>>

\* lines 134-135 and 140
ParseQueriesOk ==
    /\ pc = "parse_queries"
    /\ queries' = Truncate(parse_queries_from_xlsx_file(workbook))
    /\ last_log' = "info"
    /\ pc' = "open_report"
    /\ UNCHANGED <<env, logger, driver, i, query, cached, search_results,
                   seen_search_results, calls, steps, delays, el_text, raised,
                   attempts, extracted, outfile, fatal, fatal_logged, exit_code>>

\* line 134: the file cannot be read, or is no workbook
ParseQueriesFail ==
    /\ pc = "parse_queries"
    /\ fatal' = "workbook"
    /\ pc' = "setup_except"
    /\ UNCHANGED <<env, logger, driver, loopvars, outfile, last_log, fatal_logged, exit_code>>

LogException == last_log' = "exception" /\ fatal_logged' = TRUE
LogNothing == UNCHANGED <<last_log, fatal_logged>>

\* lines 136-137
SetupExcept ==
    /\ pc = "setup_except"
    /\ LogException
    /\ pc' = "setup_exit"
    /\ UNCHANGED <<env, logger, driver, loopvars, outfile, fatal, exit_code>>

\* a handler without its sys.exit(1): main goes on to the report
SetupExitFallsThrough ==
    /\ pc = "setup_exit"
    /\ pc' = "open_report"
    /\ UNCHANGED <<env, logger, driver, loopvars, outfile, last_log, fatal, fatal_logged,
                   exit_code>>

\* line 138
SetupExit ==
    /\ pc = "setup_exit"
    /\ exit_code' = 1
    /\ pc' = "exited"
    /\ UNCHANGED <<env, logger, driver, loopvars, outfile, last_log, fatal, fatal_logged>>

(***************************************************************************)
(* The report block, lines 142-162.  An exception raised inside the with   *)
(* block closes the report on its way to the handler of line 160.          *)
(***************************************************************************)
\* a with block that does not close its file
LeftOpen(f) == f
\* line 143: leaving the with block, by its end or by an exception, closes
\* the file
Closed(f) == [f EXCEPT !.state = "closed"]

ReportFails(kind) ==
    /\ fatal' = kind
    /\ pc' = "report_except"

\* line 143
OpenReport ==
    /\ pc = "open_report"
    /\ \/ /\ outfile' = [state |-> "open", header |-> FALSE, rows |-> <<>>,
                         opens |-> outfile.opens + 1]
          /\ pc' = "writeheader"
          /\ UNCHANGED fatal
       \/ ReportFails("report_open") /\ UNCHANGED outfile
    /\ UNCHANGED <<env, logger, driver, loopvars, last_log, fatal_logged, exit_code>>

\* lines 144-147
WriteHeader ==
    /\ pc = "writeheader"
    /\ \/ /\ outfile' = [outfile EXCEPT !.header = TRUE]
          /\ pc' = "driver_get"
          /\ UNCHANGED fatal
       \/ /\ outfile' = Closed(outfile)
          /\ ReportFails("report_write")
    /\ seen_search_results' = <<>>
    /\ UNCHANGED <<env, logger, driver, queries, i, query, cached, search_results,
                   calls, steps, delays, el_text, raised, attempts, extracted,
                   last_log, fatal_logged, exit_code>>

\* line 149
DriverGet ==
    /\ pc = "driver_get"
    /\ \/ pc' = "loop" /\ UNCHANGED <<outfile, fatal>>
       \/ /\ outfile' = Closed(outfile)
          /\ ReportFails("driver_get")
    /\ UNCHANGED <<env, logger, driver, loopvars, last_log, fatal_logged, exit_code>>

\* a loop that stops one query short
LoopDoneEarly == i >= Len(queries)
\* line 150: the for loop has no next query
LoopDone == i > Len(queries)

\* lines 150-155: the next query, the cache lookup, the inter-query delay
LoopHead ==
    /\ pc = "loop"
    /\ ~LoopDone
    /\ query' = queries[i]
    /\ calls' = <<>>
    /\ el_text' = <<>>
    /\ raised' = "none"
    /\ IF DictHas(seen_search_results, queries[i])
       THEN /\ cached' = TRUE
            /\ search_results' = DictGet(seen_search_results, queries[i])
            /\ last_log' = "debug"
            /\ pc' = "writerow"
            /\ UNCHANGED <<steps, delays>>
       ELSE /\ cached' = FALSE
            /\ steps' = Append(steps, "inter_query_delay")
            /\ delays' = delays + 1
            /\ pc' = "search_query"
            /\ UNCHANGED <<search_results, last_log>>
    /\ UNCHANGED <<env, logger, driver, queries, i, seen_search_results, attempts,
                   extracted, outfile, fatal, fatal_logged, exit_code>>

\* a handler that does not catch the exception: it leaves the with block
AfterSubmitFailureAborts == "report_except"
\* the handler logs and goes on to the review count
AfterSubmitFailureReadsReviews == "parse_number_of_reviews"
\* the handler logs and falls through to the extraction
AfterSubmitFailureFallsThrough == "parse_star_score"
\* line 106: the handler returns the partial record to main
AfterSubmitFailure == "record"

\* lines 99-106: the query is submitted; the k-th browser call raises, or none
SearchQuery ==
    /\ pc = "search_query"
    /\ attempts' = Append(attempts, query)
    /\ \/ \E url \in Urls :
            /\ calls' = SubmitCalls
            /\ steps' = steps \o StepsOf(SubmitCalls)
            /\ search_results' = With([query |-> query], "url", url)
            /\ pc' = "parse_star_score"
            /\ UNCHANGED <<last_log, raised>>
       \/ \E k \in 1..Len(SubmitCalls) :
            /\ calls' = SubSeq(SubmitCalls, 1, k)
            /\ steps' = steps \o StepsOf(SubSeq(SubmitCalls, 1, k))
            /\ raised' = SubmitCalls[k]
            /\ search_results' = [query |-> query]
            /\ last_log' = "exception"
            /\ pc' = AfterSubmitFailure
    /\ UNCHANGED <<env, logger, driver, queries, i, query, cached, seen_search_results,
                   delays, el_text, extracted, outfile, fatal, fatal_logged, exit_code>>

\* a handler that lets the exception go: it leaves the with block
AfterExtractionFailureAborts == "report_except"
\* lines 113-115: the handler logs and the record is returned to main
AfterExtractionFailure == "record"

\* lines 109, 111-115: the rating element
ParseStarScore ==
    /\ pc = "parse_star_score"
    /\ extracted' = Append(extracted, query)
    /\ calls' = Append(calls, "find_element_star_score")
    /\ steps' = Append(steps, "find_element_star_score")
    /\ \/ \E text \in StarTexts :
            /\ el_text' = text
            /\ search_results' = With(search_results, "star_score", parse_star_score(text))
            /\ pc' = "parse_number_of_reviews"
            /\ UNCHANGED <<last_log, raised>>
       \/ \* NoSuchElementException
          /\ raised' = "star_score_not_found"
          /\ last_log' = "debug"
          /\ pc' = "record"
          /\ UNCHANGED <<search_results, el_text>>
       \/ \* any other exception
          /\ raised' = "star_score_other"
          /\ last_log' = "exception"
          /\ pc' = AfterExtractionFailure
          /\ UNCHANGED <<search_results, el_text>>
    /\ UNCHANGED <<env, logger, driver, queries, i, query, cached, seen_search_results,
                   delays, attempts, outfile, fatal, fatal_logged, exit_code>>

\* lines 110-115: the review-count element, displaying one of texts
ReadReviews(texts) ==
    /\ pc = "parse_number_of_reviews"
    /\ calls' = Append(calls, "find_element_reviews")
    /\ steps' = Append(steps, "find_element_reviews")
    /\ \/ \E text \in texts :
            /\ el_text' = text
            /\ search_results' =
                 With(search_results, "reviews_count", parse_number_of_reviews(text))
            /\ pc' = "record"
            /\ UNCHANGED <<last_log, raised>>
       \/ \* NoSuchElementException
          /\ raised' = "reviews_not_found"
          /\ last_log' = "debug"
          /\ pc' = "record"
          /\ UNCHANGED <<search_results, el_text>>
       \/ \* any other exception
          /\ raised' = "reviews_other"
          /\ last_log' = "exception"
          /\ pc' = AfterExtractionFailure
          /\ UNCHANGED <<search_results, el_text>>
    /\ UNCHANGED <<env, logger, driver, queries, i, query, cached, seen_search_results,
                   delays, attempts, extracted, outfile, fatal, fatal_logged, exit_code>>

ParseNumberOfReviews == ReadReviews(ReviewTexts)

\* the row is left unwritten and the loop goes on
AfterRecordSkipsRow == "loop"
\* lines 158-159: the record is stored, then its row is written
AfterRecord == "writerow"

\* lines 157-158
Record ==
    /\ pc = "record"
    /\ last_log' = "debug"
    /\ seen_search_results' = DictSet(seen_search_results, query, search_results)
    /\ pc' = AfterRecord
    /\ UNCHANGED <<env, logger, driver, queries, i, query, cached, search_results,
                   calls, steps, delays, el_text, raised, attempts, extracted, outfile,
                   fatal, fatal_logged, exit_code>>

\* line 159
WriteRow ==
    /\ pc = "writerow"
    /\ \/ /\ outfile' = [outfile EXCEPT !.rows = Append(@, Row(search_results))]
          /\ i' = i + 1
          /\ steps' = <<>>
          /\ pc' = "loop"
          /\ UNCHANGED fatal
       \/ /\ outfile' = Closed(outfile)
          /\ ReportFails("report_write")
          /\ UNCHANGED <<i, steps>>
    /\ UNCHANGED <<env, logger, driver, queries, query, cached, search_results,
                   seen_search_results, calls, delays, el_text, raised, attempts,
                   extracted, last_log, fatal_logged, exit_code>>

\* the end of the loop and of the with block: the report is closed
CloseReport ==
    /\ pc = "loop"
    /\ LoopDone
    /\ outfile' = Closed(outfile)
    /\ \/ pc' = "return" /\ UNCHANGED fatal
       \/ ReportFails("report_write")
    /\ UNCHANGED <<env, logger, driver, loopvars, last_log, fatal_logged, exit_code>>

\* a handler that exits without logging
ReportExceptSilent ==
    /\ pc = "report_except"
    /\ LogNothing
    /\ pc' = "report_exit"
    /\ UNCHANGED <<env, logger, driver, loopvars, outfile, fatal, exit_code>>

\* lines 160-161
ReportExcept ==
    /\ pc = "report_except"
    /\ LogException
    /\ pc' = "report_exit"
    /\ UNCHANGED <<env, logger, driver, loopvars, outfile, fatal, exit_code>>

\* an exit that ends the browser session first
ReportExitQuitsDriver ==
    /\ pc = "report_exit"
    /\ driver' = "none"
    /\ exit_code' = 1
    /\ pc' = "exited"
    /\ UNCHANGED <<env, logger, loopvars, outfile, last_log, fatal, fatal_logged>>

\* line 162
ReportExit ==
    /\ pc = "report_exit"
    /\ exit_code' = 1
    /\ pc' = "exited"
    /\ UNCHANGED <<env, logger, driver, loopvars, outfile, last_log, fatal, fatal_logged>>

\* main() returns and the interpreter exits with status 0
MainReturn ==
    /\ pc = "return"
    /\ exit_code' = 0
    /\ pc' = "exited"
    /\ UNCHANGED <<env, logger, driver, loopvars, outfile, last_log, fatal, fatal_logged>>

Next ==
    \/ CheckInput
    \/ CreateLogger
    \/ CreateWebdriver
    \/ ParseQueriesOk
    \/ ParseQueriesFail
    \/ SetupExcept
    \/ SetupExit
    \/ OpenReport
    \/ WriteHeader
    \/ DriverGet
    \/ LoopHead
    \/ SearchQuery
    \/ ParseStarScore
    \/ ParseNumberOfReviews
    \/ Record
    \/ WriteRow
    \/ CloseReport
    \/ ReportExcept
    \/ ReportExit
    \/ MainReturn

Spec == Init /\ [][Next]_vars

\* every call of the run returns or raises: no step of main() waits for ever
FairSpec == Spec /\ WF_vars(Next)

(***************************************************************************)
(* The Query Extractor alone: any workbook, extracted and truncated.       *)
(***************************************************************************)
InitParse ==
    /\ input_is_file = TRUE
    /\ \/ workbook \in LongWorkbooks
       \/ workbook = ExampleWorkbook
       \/ IsParseWorkbook(workbook)
    /\ pc = "parse_queries"
    /\ InitRest

SpecParse == InitParse /\ [][ParseQueriesOk]_vars

(***************************************************************************)
(* The review-count step of the Result Extractor alone: the first query of *)
(* a run is submitted and its rating read, and the review-count element    *)
(* displays any text.                                                      *)
(***************************************************************************)
InitExtract ==
    /\ input_is_file = TRUE
    /\ workbook = <<<<<<Cell(PyStr("1"))>>>>>>
    /\ pc = "parse_number_of_reviews"
    /\ logger = "created"
    /\ driver = "running"
    /\ queries = <<PyStr("1")>>
    /\ i = 1
    /\ query = PyStr("1")
    /\ cached = FALSE
    /\ \E url \in Urls, text \in StarTexts :
          /\ el_text = text
          /\ search_results =
                With(With([query |-> PyStr("1")], "url", url),
                     "star_score", parse_star_score(text))
    /\ seen_search_results = <<>>
    /\ calls = Append(SubmitCalls, "find_element_star_score")
    /\ steps = <<"inter_query_delay">> \o StepsOf(SubmitCalls) \o <<"find_element_star_score">>
    /\ delays = 1
    /\ raised = "none"
    /\ attempts = <<PyStr("1")>>
    /\ extracted = <<PyStr("1")>>
    /\ outfile = [state |-> "open", header |-> TRUE, rows |-> <<>>, opens |-> 1]
    /\ last_log = "info"
    /\ fatal = "none"
    /\ fatal_logged = FALSE
    /\ exit_code = -1

ParseNumberOfAnyReviews == ReadReviews(AnyReviewTexts)

SpecExtract == InitExtract /\ [][ParseNumberOfAnyReviews]_vars

(***************************************************************************)
(* Properties.                                                             *)
(***************************************************************************)
Range(f) == {f[x] : x \in DOMAIN f}
Min(a, b) == IF a <= b THEN a ELSE b

\* no two queries of the list are equal as values and different as texts
\* (a long list of the model repeats one value after its first place, so
\* its first places decide)
NoValueClash ==
    \A a, b \in 1..Min(Len(queries), MaxRunRows + 1) :
        PyEq(queries[a], queries[b]) => Str(queries[a]) = Str(queries[b])

\* C1: the rows written so far are, query by query, the texts of a prefix
\* of the query list, and a run that ends with status 0 has written one
\* row for every query.
C1_RowsFollowQueries ==
    /\ Len(outfile.rows) <= Len(queries)
    /\ \A j \in 1..Len(outfile.rows) : outfile.rows[j].query = Str(queries[j])
    /\ exit_code = 0 => Len(outfile.rows) = Len(queries)

\* C1 holds of a list in which no value equals one of another text.
RowsFollowQueriesWithoutClash == NoValueClash => C1_RowsFollowQueries

\* C2: the row of a later occurrence of a query text is, in its four
\* fields, the row of every earlier occurrence of that text, the first
\* included.  Rows are only appended: it is stated of the last row written.
C2_DuplicateRowsIdentical ==
    LET k == Len(outfile.rows)
    IN  \A j \in 1..(k - 1) :
            Str(queries[j]) = Str(queries[k]) => outfile.rows[k] = outfile.rows[j]

\* C2 holds of queries equal as Python values, the equality of the
\* cache's keys: the row of a later occurrence is the row of every earlier
\* one.
EqualValuesIdenticalRows ==
    LET k == Len(outfile.rows)
    IN  \A j \in 1..(k - 1) :
            PyEq(queries[j], queries[k]) => outfile.rows[k] = outfile.rows[j]

\* C3: no query text is passed to the browser twice, and a query found in
\* the cache makes no browser call.
C3_OneSubmissionPerText ==
    /\ \A a, b \in 1..Len(attempts) : a # b => Str(attempts[a]) # Str(attempts[b])
    /\ cached => calls = <<>>

\* C3 holds of queries distinct as Python values: no two queries passed to
\* the browser are equal as values, a failed first attempt included; the
\* browser is entered only for a query the cache does not hold, and a
\* query found in the cache makes no browser call.
OneSubmissionPerValue ==
    /\ \A a, b \in 1..Len(attempts) : a # b => ~PyEq(attempts[a], attempts[b])
    /\ pc \in {"search_query", "parse_star_score", "parse_number_of_reviews"} =>
          /\ ~cached
          /\ \A j \in 1..Len(seen_search_results) :
                ~PyEq(seen_search_results[j].key, query)
    /\ cached => (calls = <<>> /\ raised = "none")

\* C4: a search result, in hand or cached, has star_score and
\* reviews_count both set or both absent once its cycle has ended.
C4_ScoresBothOrNeither ==
    /\ pc \in {"record", "writerow"} =>
          (Has(search_results, "star_score") <=> Has(search_results, "reviews_count"))
    /\ \A j \in 1..Len(seen_search_results) :
          Has(seen_search_results[j].value, "star_score")
             <=> Has(seen_search_results[j].value, "reviews_count")

FirstColumn(wb) ==
    LET rows == SelectSeq(FlatRows(wb), LAMBDA row : Len(row) > 0)
    IN  [j \in 1..Len(rows) |-> rows[j][1].value]

\* the non-empty first-column values, and the ones Python takes for true
NonEmptyValues(wb) == SelectSeq(FirstColumn(wb), NonEmpty)
TruthyValues(wb) == SelectSeq(FirstColumn(wb), Truthy)
StartsWithHeader(values) == values # <<>> /\ values[1] = PyStr("Agent Name")

SubmitRaised == ~cached /\ raised \in Range(SubmitCalls)

QueryOnlyRow(q) == [query |-> Str(q), star_score |-> <<>>, reviews_count |-> <<>>, url |-> ""]

\* C6: after a submission that raised (at any of its five browser calls)
\* the record holds the query alone, the Result Extractor is not invoked,
\* the row written is the query text with three empty fields, and the run
\* goes on: it is aborted by nothing but a failure to write the report.
C6_SubmitFailureGivesQueryOnlyRow ==
    SubmitRaised =>
        /\ search_results = [query |-> query]
        /\ \A c \in 1..Len(calls) : calls[c] \in Range(SubmitCalls)
        /\ Len(extracted) < Len(attempts)
        /\ pc \in {"record", "writerow", "loop", "return", "exited",
                    "report_except", "report_exit"}
        /\ pc \in {"record", "writerow"} => fatal = "none"
        /\ fatal \in {"none", "report_write"}
        /\ (pc = "loop" /\ fatal = "none") =>
              /\ Len(outfile.rows) = i - 1
              /\ outfile.rows[i - 1] = QueryOnlyRow(queries[i - 1])

\* reading the URL raised for the first query: its row is written and the
\* loop is at the second query
C6_Witness ==
    /\ pc = "loop"
    /\ SubmitRaised
    /\ raised = "current_url"
    /\ i = 2
    /\ Len(queries) >= 2
    /\ outfile.rows = <<QueryOnlyRow(queries[1])>>

\* C7 as stated: once the report is open, nothing but a failure to write
\* the report aborts the run.
C7_OnlyWriteFailuresAbort ==
    (outfile.state # "unopened" /\ fatal # "none") => fatal = "report_write"

ReportInFull ==
    /\ exit_code = 0
    /\ outfile.state = "closed"
    /\ outfile.header
    /\ Len(outfile.rows) = Len(queries)

\* C7, amended: once the report is open, only a failure to write it or a
\* failure of the first navigation (line 149) aborts the run, the latter
\* before any query is processed; and once that navigation has returned,
\* the run goes on to write a row for every query and to exit with status
\* 0, unless a report write fails.
C7_AfterNavigationNoBrowserAbort ==
    /\ []((outfile.state # "unopened" /\ fatal # "none")
             => fatal \in {"report_write", "driver_get"})
    /\ [](fatal = "driver_get" => (outfile.rows = <<>> /\ attempts = <<>>))
    /\ (pc = "loop" ~> (ReportInFull \/ fatal = "report_write"))

\* a run of three queries, one of them failed in the browser, that ends
\* with the report in full
C7_Witness ==
    /\ ReportInFull
    /\ Len(queries) = 3
    /\ \E j \in 1..3 : outfile.rows[j].url = ""

\* C8: when the input path is no file, or the browser session or the
\* workbook parsing fails, the report is never opened or written and the
\* process does not exit with status 0: it is on its way to exit status 1.
C8_SetupFailureNoReport ==
    /\ ~input_is_file => pc \in {"check_input", "exited"}
    /\ fatal \in {"webdriver", "workbook"} => pc \in {"setup_except", "setup_exit", "exited"}
    /\ (~input_is_file \/ fatal \in {"missing_input", "webdriver", "workbook"}) =>
          /\ outfile = NoReport
          /\ exit_code # 0
          /\ pc = "exited" => exit_code = 1

\* the workbook could not be parsed: exit status 1, a browser session
\* running, no report
C8_Witness ==
    /\ pc = "exited"
    /\ exit_code = 1
    /\ fatal = "workbook"
    /\ driver = "running"

\* C9: the process ends with status 0 or 1; with 0 only after a run
\* without fatal error that wrote the header and one row for every query
\* and closed the report; with 1 exactly when a fatal error occurred.
C9_ExitCodes ==
    /\ exit_code \in {-1, 0, 1}
    /\ pc = "exited" <=> exit_code # -1
    /\ exit_code = 0 =>
          /\ fatal = "none"
          /\ outfile.state = "closed"
          /\ outfile.header
          /\ Len(outfile.rows) = Len(queries)
    /\ exit_code = 1 => fatal # "none"
    /\ fatal # "none" => exit_code # 0

\* a run of three queries that ends with status 0
C9_Witness ==
    /\ exit_code = 0
    /\ Len(queries) = 3
    /\ Len(outfile.rows) = 3

\* C10 as stated: every exit with a non-zero status follows a log event
\* for the failure.
C10_EveryFatalLogged == exit_code = 1 => fatal_logged

\* C10, amended: a failure of the browser session startup, of the workbook
\* read, of the first navigation or of opening, writing or closing the
\* report is logged (logger.exception) before the process exits with
\* status 1; a missing input file, and a logger that cannot be created,
\* end the process with an uncaught exception and no log event.
C10_CaughtFatalLogged ==
    /\ (exit_code = 1 /\ fatal \notin {"missing_input", "logger"}) =>
          (fatal_logged /\ last_log = "exception")
    /\ (exit_code = 1 /\ fatal \in {"missing_input", "logger"}) =>
          (~fatal_logged /\ last_log = "none")

\* a failed report write, logged, then exit status 1
C10_Witness ==
    /\ exit_code = 1
    /\ fatal = "report_write"
    /\ fatal_logged
    /\ outfile.rows # <<>>

Count(seq, x) == Cardinality({p \in 1..Len(seq) : seq[p] = x})

\* the queries whose cycle has ended with a written row
Processed == i - 1
\* the state is between two cycles, or the run has ended with status 0
BetweenCycles == pc \in {"loop", "return"} \/ exit_code = 0

\* every submission follows at once the one sleep of line 155 taken since
\* the last row was written, and a query found in the cache sleeps neither
\* at line 155 nor at line 84
DelayBeforeEachSubmission ==
    /\ \A p \in 1..Len(steps) :
          steps[p] = "find_element" => (p = 2 /\ steps[1] = "inter_query_delay")
    /\ Count(steps, "inter_query_delay") <= 1
    /\ Count(steps, "typing_delay") <= 1
    /\ steps # <<>> => (steps[1] = "inter_query_delay" /\ Len(outfile.rows) = i - 1)
    /\ cached => steps = <<>>

\* C11: every submission is preceded at once by exactly one inter-query
\* delay taken after the previous row was written, a cache hit takes no
\* delay of either kind, and the number of inter-query delays taken is the
\* number of distinct query texts processed.
C11_DelaysCountDistinctTexts ==
    /\ DelayBeforeEachSubmission
    /\ BetweenCycles =>
          delays = Cardinality({Str(queries[j]) : j \in 1..Processed})

\* C11 holds with the queries counted as Python values, the equality of
\* the cache's keys: the delays taken are the entries of the cache, one for
\* every query passed to the browser.
DelaysCountDistinctValues ==
    /\ DelayBeforeEachSubmission
    /\ BetweenCycles => (delays = Len(seen_search_results) /\ delays = Len(attempts))

\* an entry of the cache is never removed, and its key and value never change
EntriesKept ==
    /\ Len(seen_search_results') >= Len(seen_search_results)
    /\ \A j \in 1..Len(seen_search_results) :
          seen_search_results'[j] = seen_search_results[j]

CacheKeyTexts == {Str(seen_search_results[j].key) : j \in 1..Len(seen_search_results)}

\* C12: the cache is empty at the start of the run; after any prefix of the
\* query list has been processed its keys are exactly the distinct query
\* texts of that prefix, one entry for each; no entry is ever removed or
\* replaced; and it never holds more than MAX_QUERIES entries.
C12_CacheKeysAreDistinctTexts ==
    /\ [](pc \in {"check_input", "driver_get"} => seen_search_results = <<>>)
    /\ [](BetweenCycles =>
            /\ CacheKeyTexts = {Str(queries[j]) : j \in 1..Processed}
            /\ Len(seen_search_results) = Cardinality(CacheKeyTexts))
    /\ [][EntriesKept]_vars
    /\ [](Len(seen_search_results) <= MAX_QUERIES)

\* C12 holds with the keys taken as Python values: the keys are pairwise
\* unequal, every processed query equals a key, every key is the first
\* processed query equal to it, with the record of that query's one
\* attempt; entries are kept; and the cache holds no more entries than
\* there are queries, at most MAX_QUERIES.
CacheKeysAreDistinctValues ==
    /\ [](pc \in {"check_input", "driver_get"} => seen_search_results = <<>>)
    /\ [](\A a, b \in 1..Len(seen_search_results) :
            a # b => ~PyEq(seen_search_results[a].key, seen_search_results[b].key))
    /\ [](BetweenCycles =>
            /\ \A j \in 1..Processed : DictHas(seen_search_results, queries[j])
            /\ \A a \in 1..Len(seen_search_results) :
                  /\ seen_search_results[a].key = attempts[a]
                  /\ seen_search_results[a].value.query = attempts[a]
                  /\ \E j \in 1..Processed : queries[j] = attempts[a])
    /\ [][EntriesKept]_vars
    /\ [](Len(seen_search_results) <= Len(queries) /\ Len(queries) <= MAX_QUERIES)

\* C13: the values collected are, sheet by sheet and row by row, the
\* first-column values that are non-empty (not None and not the empty
\* string), of whatever type, and no other column counts: the query list
\* is these values less the header, cut to MAX_QUERIES.
C13_CollectsNonEmptyValues ==
    pc = "open_report" =>
        queries = Truncate(RemoveHeader(NonEmptyValues(workbook)))

\* C13 holds of the values Python takes for true: not None, not the empty
\* string, and not the number 0.
CollectsTruthyValues ==
    pc = "open_report" =>
        queries = Truncate(RemoveHeader(TruthyValues(workbook)))

\* C14: of the values collected across all sheets exactly the first is
\* dropped, and only when it is "Agent Name"; every other "Agent Name" (a
\* second one in a row, one at the top of a later sheet) stays a query; and
\* the rows "Agent Name", "Acme Corp", "", "Acme Corp", "Beta LLC" give
\* the queries "Acme Corp", "Acme Corp", "Beta LLC".
C14_HeaderRemovedOnceGlobally ==
    pc = "open_report" =>
        LET collected == TruthyValues(workbook)
            h == IF StartsWithHeader(collected) THEN 1 ELSE 0
        IN  /\ queries = Truncate(SubSeq(collected, 1 + h, Len(collected)))
            /\ Len(collected) - h <= MAX_QUERIES =>
                  Count(queries, PyStr("Agent Name"))
                     = Count(collected, PyStr("Agent Name")) - h
            /\ workbook = ExampleWorkbook =>
                  queries = <<PyStr("Acme Corp"), PyStr("Acme Corp"), PyStr("Beta LLC")>>

\* two sheets, each with the header on top, the first with a value below
\* it: the second sheet's header is a query
C14_Witness ==
    /\ pc = "open_report"
    /\ Len(workbook) = 2
    /\ StartsWithHeader(TruthyValues(<<workbook[1]>>))
    /\ Len(TruthyValues(<<workbook[1]>>)) = 2
    /\ StartsWithHeader(TruthyValues(<<workbook[2]>>))
    /\ queries = <<PyStr("Acme Corp"), PyStr("Agent Name")>>

\* the rows of the example, extracted
ExampleExtracted ==
    /\ pc = "open_report"
    /\ workbook = ExampleWorkbook
    /\ queries = <<PyStr("Acme Corp"), PyStr("Acme Corp"), PyStr("Beta LLC")>>

ExtractionRaisedOther == ~cached /\ raised \in {"star_score_other", "reviews_other"}

\* a step of the extraction leaves every field already set as it was
FieldsKept ==
    pc \in {"parse_star_score", "parse_number_of_reviews"} =>
        \A f \in DOMAIN search_results :
            f \in DOMAIN search_results' /\ search_results'[f] = search_results[f]

\* C15: after an extraction step that raised anything but
\* NoSuchElementException the failure is logged at exception level and
\* absorbed: the record holds the query and the url, and the star_score
\* when it was the review-count step that raised; no field set before is
\* cleared; the record is cached and its row written, and the run goes on,
\* aborted by nothing but a failure to write the report.
C15_OtherExtractionFailureAbsorbed ==
    /\ [](ExtractionRaisedOther =>
            /\ DOMAIN search_results =
                  {"query", "url"}
                     \cup (IF raised = "reviews_other" THEN {"star_score"} ELSE {})
            /\ search_results.query = query
            /\ search_results.url \in Urls
            /\ raised = "reviews_other" =>
                  \E text \in StarTexts : search_results.star_score = parse_star_score(text)
            /\ pc \in {"record", "writerow", "loop", "return", "exited",
                        "report_except", "report_exit"}
            /\ pc = "record" => last_log = "exception"
            /\ pc \in {"record", "writerow"} => fatal = "none"
            /\ fatal \in {"none", "report_write"}
            /\ pc \in {"report_except", "report_exit"} => fatal = "report_write"
            /\ pc # "record" => DictGet(seen_search_results, query) = search_results
            /\ (pc = "loop" /\ fatal = "none") =>
                  /\ Len(outfile.rows) = i - 1
                  /\ outfile.rows[i - 1] = Row(search_results))
    /\ [][FieldsKept]_vars

\* the review-count step raised for the first query after its rating was
\* read: the row with query, star_score and url is written and the loop is
\* at the second query
C15_Witness ==
    /\ pc = "loop"
    /\ ExtractionRaisedOther
    /\ raised = "reviews_other"
    /\ i = 2
    /\ Len(queries) >= 2
    /\ outfile.rows[1].star_score = <<"4", ".", "5">>
    /\ outfile.rows[1].reviews_count = <<>>
    /\ outfile.rows[1].url # ""

\* how the cycle of a query passed to the browser ended
Outcome ==
    CASE raised \in {"find_element", "clear", "send_keys", "submit", "current_url"}
            -> "NAVIGATION_FAILED"
      [] raised \in {"star_score_not_found", "reviews_not_found"} -> "NO_RESULT_ELEMENTS"
      [] raised \in {"star_score_other", "reviews_other"} -> "EXTRACTION_FAILED"
      [] OTHER -> "RESULT_EXTRACTED"

\* the state of the query in hand; RECORDED when the row of the last query
\* begun is written and no query is in hand
Phase ==
    IF pc \in {"report_except", "report_exit"} \/ exit_code = 1 THEN "ABORTED"
    ELSE IF pc = "search_query" THEN "PENDING"
    ELSE IF pc \in {"parse_star_score", "parse_number_of_reviews"} THEN "SUBMITTED"
    ELSE IF pc \in {"record", "writerow"} THEN (IF cached THEN "CACHE_HIT" ELSE Outcome)
    ELSE IF (pc \in {"loop", "return"} \/ exit_code = 0) /\ i > 1 THEN "RECORDED"
    ELSE "NOT_STARTED"

InHand ==
    {"PENDING", "SUBMITTED", "CACHE_HIT", "NAVIGATION_FAILED", "NO_RESULT_ELEMENTS",
     "EXTRACTION_FAILED", "RESULT_EXTRACTED"}

\* the changes of state of a cycle whose extraction ends in one of outcomes
Transitions(outcomes) ==
    {<<from, "PENDING">> : from \in {"NOT_STARTED", "RECORDED"}}
      \cup {<<"RECORDED", "CACHE_HIT">>}
      \cup {<<"PENDING", "SUBMITTED">>, <<"PENDING", "NAVIGATION_FAILED">>}
      \cup {<<"SUBMITTED", o>> : o \in outcomes}
      \cup {<<o, "RECORDED">> : o \in outcomes \cup {"NAVIGATION_FAILED", "CACHE_HIT"}}
      \cup {<<from, "ABORTED">> : from \in InHand \cup {"NOT_STARTED", "RECORDED"}}

\* one query at a time: while a query is in hand, or a sleep or browser
\* call of its cycle has been made, the rows of all queries before it are
\* written and none of a later one
OneAtATime ==
    /\ (Phase \in InHand \/ steps # <<>>) =>
          /\ i <= Len(queries)
          /\ query = queries[i]
          /\ Len(outfile.rows) = i - 1
    /\ Phase \in {"RECORDED", "NOT_STARTED"} => (steps = <<>> /\ Len(outfile.rows) = i - 1)
    /\ Phase = "PENDING" => steps = <<"inter_query_delay">>
    /\ Phase = "SUBMITTED" => (raised = "none" /\ Has(search_results, "url"))

\* a step changes the state of the query in hand along the given
\* transitions, and reaches RECORDED by appending the query's row
PhaseStep(outcomes) ==
    /\ Phase' # Phase => <<Phase, Phase'>> \in Transitions(outcomes)
    /\ (Phase \in InHand /\ Phase' = "RECORDED") =>
          /\ outfile'.rows = Append(outfile.rows, Row(search_results))
          /\ i' = i + 1
    /\ (Phase \in InHand /\ Phase' \in InHand) => (i' = i /\ query' = query)

\* C16 as stated: one query at a time, each non-cached query PENDING ->
\* SUBMITTED -> RESULT_EXTRACTED or NO_RESULT_ELEMENTS -> RECORDED, or
\* PENDING -> NAVIGATION_FAILED -> RECORDED, its row appended before any
\* sleep or browser call of the next.
C16_OneAtATimeTwoOutcomes ==
    []OneAtATime /\ [][PhaseStep({"RESULT_EXTRACTED", "NO_RESULT_ELEMENTS"})]_vars

\* C16, amended: the same, with the third end of an extraction: an
\* exception other than NoSuchElementException, absorbed (lines 113-114),
\* after which the query is RECORDED as after the other two.
C16_OneAtATimeThreeOutcomes ==
    []OneAtATime
      /\ [][PhaseStep({"RESULT_EXTRACTED", "NO_RESULT_ELEMENTS", "EXTRACTION_FAILED"})]_vars

\* the second query's extraction has ended in an absorbed failure, with
\* the first query's row, and no other, in the report
C16_Witness ==
    /\ Phase = "EXTRACTION_FAILED"
    /\ pc = "writerow"
    /\ i = 2
    /\ Len(outfile.rows) = 1

\* C17: the report is opened at most once in a run, and whenever it was
\* opened it is closed before the handler of line 160 runs and when the
\* process ends, however the run ends: by its completion, by a failed
\* report write, or by a browser failure that leaves the query loop.
C17_ReportOpenedOnceAndClosed ==
    /\ outfile.opens <= 1
    /\ outfile.state = "unopened" <=> outfile.opens = 0
    /\ pc \in {"return", "report_except", "report_exit", "exited"} => outfile.state # "open"
    /\ outfile.state = "open" =>
          pc \in {"writeheader", "driver_get", "loop", "search_query", "parse_star_score",
                   "parse_number_of_reviews", "record", "writerow"}

\* the first navigation failed: the process has ended with the report,
\* opened once, closed
C17_Witness ==
    /\ pc = "exited"
    /\ fatal = "driver_get"
    /\ outfile.opens = 1
    /\ outfile.state = "closed"

Whitespace == {" ", "\t"}

\* the first token of text as whitespace delimits it: what comes after the
\* leading whitespace and before the next whitespace character
LeadingToken(text) ==
    LET starts == {p \in 1..Len(text) : text[p] \notin Whitespace}
        first == IF starts = {} THEN Len(text) + 1
                 ELSE CHOOSE p \in starts : \A q \in starts : p <= q
        stops == {p \in first..Len(text) : text[p] \in Whitespace}
        stop == IF stops = {} THEN Len(text) + 1
                ELSE CHOOSE p \in stops : \A q \in stops : p <= q
    IN  SubSeq(text, first, stop - 1)

\* what comes before the first space character of text, all of it if it
\* has none
BeforeFirstSpace(text) ==
    LET spaces == {p \in 1..Len(text) : text[p] = " "}
    IN  IF spaces = {} THEN text
        ELSE SubSeq(text, 1, (CHOOSE p \in spaces : \A q \in spaces : p <= q) - 1)

ReviewsRead == pc = "record" /\ ~cached /\ Has(search_results, "reviews_count")

\* C18: the reviews_count stored is the leading whitespace-delimited token
\* of the text displayed, whatever whitespace separates it from the rest
\* and whatever whitespace the text begins with; "1,234 reviews" is
\* stored as "1,234".
C18_LeadingWhitespaceToken ==
    ReviewsRead =>
        /\ search_results.reviews_count = LeadingToken(el_text)
        /\ el_text = <<"1", ",", "2", "3", "4", " ", "r", "e", "v", "i", "e", "w", "s">>
              => search_results.reviews_count = <<"1", ",", "2", "3", "4">>

\* C18 holds of the space character alone: the reviews_count stored is
\* what the text displays before its first space.
StoresTextBeforeFirstSpace ==
    ReviewsRead =>
        /\ search_results.reviews_count = BeforeFirstSpace(el_text)
        /\ el_text = <<"1", ",", "2", "3", "4", " ", "r", "e", "v", "i", "e", "w", "s">>
              => search_results.reviews_count = <<"1", ",", "2", "3", "4">>

\* the fields of a search result are nested: query, then url, then
\* star_score, then reviews_count
NestedFields(sr) ==
    /\ Has(sr, "query")
    /\ Has(sr, "reviews_count") => Has(sr, "star_score")
    /\ Has(sr, "star_score") => Has(sr, "url")

\* the same of a written row, where an absent field is an empty text
NestedRow(row) ==
    /\ row.reviews_count # <<>> => row.star_score # <<>>
    /\ row.star_score # <<>> => row.url # ""

\* C19: in every search result, in hand, cached or written, query is set,
\* reviews_count is set only with star_score, and star_score only with
\* url; and when reading the current URL raised after submit() had
\* returned, the result holds the query alone.
C19_FieldsNested ==
    /\ search_results # <<>> => NestedFields(search_results)
    /\ \A j \in 1..Len(seen_search_results) :
          /\ NestedFields(seen_search_results[j].value)
          /\ seen_search_results[j].value.query = seen_search_results[j].key
    /\ \A j \in 1..Len(outfile.rows) : NestedRow(outfile.rows[j])
    /\ (~cached /\ raised = "current_url") =>
          /\ calls = <<"find_element", "clear", "send_keys", "submit", "current_url">>
          /\ DOMAIN search_results = {"query"}
          /\ pc \in {"loop", "return", "exited"} => DOMAIN DictGet(seen_search_results, query) = {"query"}

\* three queries: the first with all four fields written, the second with
\* url and star_score, the third, whose URL could not be read after the
\* submit, about to be written with its query alone
C19_Witness ==
    /\ pc = "writerow"
    /\ ~cached
    /\ raised = "current_url"
    /\ i = 3
    /\ Len(outfile.rows) = 2
    /\ outfile.rows[1].reviews_count # <<>>
    /\ outfile.rows[2].star_score # <<>>
    /\ outfile.rows[2].reviews_count = <<>>
    /\ DOMAIN search_results = {"query"}

\* C20: the browser session is started before the workbook is parsed, so
\* a run aborted by a workbook that cannot be parsed has a session
\* running; and the program ends no session it started: on every exit but
\* those that come before the session exists (no input file, no logger, a
\* session that failed to start) the session is running when the process
\* ends.
C20_DriverStartedFirstNeverQuit ==
    /\ [](pc = "parse_queries" => (driver = "running" /\ queries = <<>>))
    /\ [](driver = "none" => (queries = <<>> /\ outfile = NoReport))
    /\ [](fatal = "workbook" => driver = "running")
    /\ []((pc = "exited" /\ fatal \notin {"missing_input", "logger", "webdriver"})
             => driver = "running")
    /\ []((pc = "exited" /\ fatal \in {"missing_input", "logger", "webdriver"})
             => driver = "none")
    /\ [][driver = "running" => driver' = "running"]_vars

\* the workbook could not be parsed: the failure is logged and the process
\* has ended with no query, no report, and the session running
C20_Witness ==
    /\ pc = "exited"
    /\ fatal = "workbook"
    /\ fatal_logged
    /\ queries = <<>>
    /\ outfile = NoReport
    /\ driver = "running"

====
